---------------------------- MODULE Spec2Model ----------------------------
(***************************************************************************)
(* fix-shape-spreads.py: for each of three fixed paths, read the file,     *)
(* apply three regular-expression substitutions in order, write the result *)
(* back and print a confirmation line; a completion line ends the run.     *)
(*                                                                         *)
(* Text is a sequence of one-character strings.  The regular expressions   *)
(* are sequences of atoms matched the way Python's re matches them         *)
(* (leftmost, greedy, backtracking, non-overlapping).                      *)
(***************************************************************************)
EXTENDS Integers, Sequences, FiniteSets, TLC

VARIABLES
    disk,       \* path index -> bytes of the file on disk
    before,     \* path index -> bytes of the file when the run began
    linesep,    \* os.linesep of the platform the script runs on
    run,        \* which invocation of the script this is (1 or 2)
    idx,        \* position of the for loop in files_to_fix
    pc,         \* the statement the script is about to execute
    content,    \* the script's variable content
    stdout,     \* the lines printed so far
    log         \* the file operations performed so far in this invocation

vars == <<disk, before, linesep, run, idx, pc, content, stdout, log>>

---------------------------------------------------------------------------
(* Text helpers *)

Chars(s) == [i \in 1..Len(s) |-> SubSeq(s, i, i)]

NL == "\n"
CR == "\r"

Lower == {Chars("abcdefghijklmnopqrstuvwxyz")[i] : i \in 1..26}
Upper == {Chars("ABCDEFGHIJKLMNOPQRSTUVWXYZ")[i] : i \in 1..26}

\* s occurs in t at position i
OccursAt(s, t, i) ==
    /\ i >= 1
    /\ i + Len(s) - 1 <= Len(t)
    /\ \A j \in 1..Len(s) : t[i + j - 1] = s[j]

Contains(t, s) == \E i \in 1..(Len(t) - Len(s) + 1) : OccursAt(s, t, i)

Count(t, s) == Cardinality({i \in 1..(Len(t) - Len(s) + 1) : OccursAt(s, t, i)})

RECURSIVE Flatten(_)
Flatten(ss) == IF ss = <<>> THEN <<>> ELSE Head(ss) \o Flatten(Tail(ss))

NewlinesOf(t) == {i \in 1..Len(t) : t[i] = NL}

\* the text split at every "\n" (what str.split("\n") gives)
Lines(t) ==
    LET nl     == NewlinesOf(t)
        n      == Cardinality(nl)
        nth(k) == IF k = 0 THEN 0
                  ELSE IF k > n THEN Len(t) + 1
                  ELSE CHOOSE p \in nl : Cardinality({q \in nl : q < p}) = k - 1
    IN  [k \in 1..(n + 1) |-> SubSeq(t, nth(k - 1) + 1, nth(k) - 1)]

\* the line position pos of t lies in
LineOf(t, pos) == Cardinality({q \in NewlinesOf(t) : q < pos}) + 1

---------------------------------------------------------------------------
(* Regular expressions: the subset the script uses *)

Lit(s)     == <<[kind |-> "lit",   neg |-> FALSE, set |-> {}, str |-> Chars(s)]>>
PlusIn(S)  == <<[kind |-> "plus",  neg |-> FALSE, set |-> S,  str |-> <<>>]>>
PlusNot(S) == <<[kind |-> "plus",  neg |-> TRUE,  set |-> S,  str |-> <<>>]>>
Open       == <<[kind |-> "open",  neg |-> FALSE, set |-> {}, str |-> <<>>]>>
Close      == <<[kind |-> "close", neg |-> FALSE, set |-> {}, str |-> <<>>]>>

InClass(a, c) == IF a.neg THEN c \notin a.set ELSE c \in a.set

NoMatch == <<0, 0, 0>>

\* the longest run of characters of class a in text from position i
RunLen(a, text, i) ==
    LET stop == {j \in i..Len(text) : ~InClass(a, text[j])}
    IN  IF stop = {} THEN Len(text) + 1 - i
        ELSE (CHOOSE j \in stop : \A q \in stop : j <= q) - i

\* match pat[k..] against text at position i: <<end, group 1 start, group 1 end>>
\* (end is the position after the match), or NoMatch.  A "+" takes the longest
\* run first and gives characters back one at a time.
RECURSIVE MatchHere(_, _, _, _, _, _), TryPlus(_, _, _, _, _, _, _)
MatchHere(pat, k, text, i, gs, ge) ==
    IF k > Len(pat) THEN <<i, gs, ge>>
    ELSE LET a == pat[k] IN
         CASE a.kind = "open"  -> MatchHere(pat, k + 1, text, i, i, ge)
           [] a.kind = "close" -> MatchHere(pat, k + 1, text, i, gs, i)
           [] a.kind = "lit"   ->
                IF OccursAt(a.str, text, i)
                THEN MatchHere(pat, k + 1, text, i + Len(a.str), gs, ge)
                ELSE NoMatch
           [] a.kind = "plus"  ->
                TryPlus(pat, k, text, i, RunLen(a, text, i), gs, ge)
TryPlus(pat, k, text, i, n, gs, ge) ==
    IF n < 1 THEN NoMatch
    ELSE LET r == MatchHere(pat, k + 1, text, i + n, gs, ge) IN
         IF r # NoMatch THEN r ELSE TryPlus(pat, k, text, i, n - 1, gs, ge)

MatchAt(pat, text, i) == MatchHere(pat, 1, text, i, 0, 0)

\* the positions at which pat matches text
MatchStarts(pat, text) == {i \in 1..Len(text) : MatchAt(pat, text, i) # NoMatch}

\* re.search(pat, text) is not None
Matches(pat, text) == MatchStarts(pat, text) # {}

\* a replacement template: \1 or literal text
Backref1 == <<[kind |-> "group", str |-> <<>>]>>
LitR(s)  == <<[kind |-> "lit", str |-> Chars(s)]>>

RECURSIVE Expand(_, _, _)
Expand(repl, text, m) ==
    IF repl = <<>> THEN <<>>
    ELSE (IF Head(repl).kind = "group"
          THEN SubSeq(text, m[2], m[3] - 1)
          ELSE Head(repl).str) \o Expand(Tail(repl), text, m)

\* the leftmost position >= pos at which pat matches text, or 0
NextMatch(pat, text, pos) ==
    LET S == {i \in MatchStarts(pat, text) : i >= pos}
    IN  IF S = {} THEN 0 ELSE CHOOSE i \in S : \A j \in S : i <= j

\* re.sub(pat, repl, text): scan left to right; the text before the leftmost
\* match is copied, the match is replaced by the expanded template, and the scan
\* continues after the match (matches do not overlap); the rest is copied.
RECURSIVE SubFromCount1(_, _, _, _, _)
SubFromCount1(pat, repl, text, pos, n) ==
    LET s == IF n >= 1 THEN 0 ELSE NextMatch(pat, text, pos) IN
    IF s = 0 THEN SubSeq(text, pos, Len(text))
    ELSE LET m == MatchAt(pat, text, s) IN
         SubSeq(text, pos, s - 1) \o Expand(repl, text, m)
             \o SubFromCount1(pat, repl, text, m[1], n + 1)

RECURSIVE SubFromNoTail(_, _, _, _)
SubFromNoTail(pat, repl, text, pos) ==
    LET s == NextMatch(pat, text, pos) IN
    IF s = 0 THEN <<>>
    ELSE LET m == MatchAt(pat, text, s) IN
         SubSeq(text, pos, s - 1) \o Expand(repl, text, m)
             \o SubFromNoTail(pat, repl, text, m[1])

RECURSIVE SubFrom(_, _, _, _)
SubFrom(pat, repl, text, pos) ==
    LET s == NextMatch(pat, text, pos) IN
    IF s = 0 THEN SubSeq(text, pos, Len(text))
    ELSE LET m == MatchAt(pat, text, s) IN
         SubSeq(text, pos, s - 1) \o Expand(repl, text, m)
             \o SubFrom(pat, repl, text, m[1])

\* (mutant) re.sub(pat, repl, text, 1): only the first match is replaced
ReSubCount1(pat, repl, text) == SubFromCount1(pat, repl, text, 1, 0)

\* (mutant) the text after the last match is not copied
ReSubNoTail(pat, repl, text) == SubFromNoTail(pat, repl, text, 1)

ReSub(pat, repl, text) == SubFrom(pat, repl, text, 1)

---------------------------------------------------------------------------
(* The script's constants *)

\* (mutant) the list in another order
files_reordered == <<"src/tools/reading.ts", "src/tools/discovery.ts", "src/schemas/common.ts">>

files_to_fix == <<"src/tools/discovery.ts", "src/tools/reading.ts", "src/schemas/common.ts">>

WordChars == Lower \cup Upper \cup {"_"}

\* the group of pattern1: a field line indented by four spaces, comma included
field1 == Lit("    ") \o PlusIn(WordChars) \o Lit(": ") \o PlusNot({",", NL}) \o Lit(",")

pattern1 ==
    Open \o field1 \o Close \o Lit("\n    ...PaginationSchema.shape\n  })\n  .strict()")

\* (mutant) the merge call is added but the spread line is not removed
replacement1_keeps_spread ==
    Backref1 \o LitR("\n    ...PaginationSchema.shape\n  })\n  .merge(PaginationSchema)\n  .strict()")

\* (mutant) the template forgets the group
replacement1_no_group == LitR("\n  })\n  .merge(PaginationSchema)\n  .strict()")

replacement1 == Backref1 \o LitR("\n  })\n  .merge(PaginationSchema)\n  .strict()")

pattern2 ==
    Open \o Lit("    response_format: ResponseFormatSchema") \o Close
         \o Lit(",\n    ...PaginationSchema.shape\n  })\n  .strict()")

replacement2 == Backref1 \o LitR("\n  })\n  .merge(PaginationSchema)\n  .strict()")

\* the group of pattern3: a field line indented by two spaces, comma included
field3 == Lit("  ") \o PlusIn(WordChars) \o Lit(": ") \o PlusNot({",", NL}) \o Lit(",")

pattern3 ==
    Open \o field3 \o Close \o Lit("\n  ...PaginationSchema.shape\n})\n.strict()")

\* (mutant) replacement1 pasted for replacement3: the indentation of pattern1
replacement3_indented == Backref1 \o LitR("\n  })\n  .merge(PaginationSchema)\n  .strict()")

replacement3 == Backref1 \o LitR("\n})\n.merge(PaginationSchema)\n.strict()")

Sub1(text) == ReSub(pattern1, replacement1, text)
Sub2(text) == ReSub(pattern2, replacement2, text)
Sub3(text) == ReSub(pattern3, replacement3, text)

\* the three substitutions of one loop iteration, in the script's order
Transform(text) == Sub3(Sub2(Sub1(text)))

---------------------------------------------------------------------------
(* Text files: open(path, 'r') and open(path, 'w') use universal newlines *)

\* reading in text mode: "\r\n" and a lone "\r" are translated to "\n"
Decode(bytes) ==
    LET marked == [i \in 1..Len(bytes) |->
                     IF bytes[i] # CR THEN bytes[i]
                     ELSE IF i < Len(bytes) /\ bytes[i + 1] = NL THEN "" ELSE NL]
        kept(c) == c # ""
    IN  SelectSeq(marked, kept)

\* writing in text mode: every "\n" is written as os.linesep
RECURSIVE EncodeFrom(_, _, _)
EncodeFrom(text, sep, pos) ==
    LET S == {i \in pos..Len(text) : text[i] = NL} IN
    IF S = {} THEN SubSeq(text, pos, Len(text))
    ELSE LET i == CHOOSE p \in S : \A q \in S : p <= q IN
         SubSeq(text, pos, i - 1) \o sep \o EncodeFrom(text, sep, i + 1)

Encode(text, sep) == EncodeFrom(text, sep, 1)

LF   == <<NL>>
CRLF == <<CR, NL>>

\* print(f"(U+2713) Fixed {filepath}"); the check mark is written as its code point
ConfirmLine(filepath) == "(U+2713) Fixed " \o filepath

\* print("\nDone! All files fixed.")
DoneLine == "\nDone! All files fixed."

NumFiles == Len(files_to_fix)

---------------------------------------------------------------------------
(* The script, statement by statement *)

\* (mutant) the error is swallowed and the script goes on after the loop body
RaiseAndContinue ==
    /\ pc' = "print"
    /\ UNCHANGED <<before, linesep, run, idx, content, stdout>>

\* an exception nothing catches: the interpreter prints the traceback and exits
Raise ==
    /\ pc' = "crashed"
    /\ UNCHANGED <<before, linesep, run, idx, content, stdout>>

\* with open(filepath, 'r') as f:
OpenRead ==
    /\ pc = "open_r"
    /\ pc' = "read"
    /\ log' = Append(log, <<"open_r", idx>>)
    /\ UNCHANGED <<disk, before, linesep, run, idx, content, stdout>>

\* the file is missing or not readable
OpenReadFails ==
    /\ pc = "open_r"
    /\ log' = Append(log, <<"fail", idx>>)
    /\ UNCHANGED disk
    /\ Raise

\* content = f.read(), and the with block closes f
Read ==
    /\ pc = "read"
    /\ content' = Decode(disk[idx])
    /\ pc' = "sub1"
    /\ log' = log \o <<<<"read", idx>>, <<"close_r", idx>>>>
    /\ UNCHANGED <<disk, before, linesep, run, idx, stdout>>

ReadFails ==
    /\ pc = "read"
    /\ log' = Append(log, <<"fail", idx>>)
    /\ UNCHANGED disk
    /\ Raise

\* content = re.sub(pattern1, replacement1, content)
ApplySub1 ==
    /\ pc = "sub1"
    /\ content' = Sub1(content)
    /\ pc' = "sub2"
    /\ UNCHANGED <<disk, before, linesep, run, idx, stdout, log>>

\* content = re.sub(pattern2, replacement2, content)
ApplySub2 ==
    /\ pc = "sub2"
    /\ content' = Sub2(content)
    /\ pc' = "sub3"
    /\ UNCHANGED <<disk, before, linesep, run, idx, stdout, log>>

\* content = re.sub(pattern3, replacement3, content)
ApplySub3 ==
    /\ pc = "sub3"
    /\ content' = Sub3(content)
    /\ pc' = "open_w"
    /\ UNCHANGED <<disk, before, linesep, run, idx, stdout, log>>

\* (mutant) the file is opened without being truncated, as mode 'a' would
OpenWriteNoTruncate ==
    /\ pc = "open_w"
    /\ pc' = "write"
    /\ log' = Append(log, <<"open_w", idx>>)
    /\ UNCHANGED <<disk, before, linesep, run, idx, content, stdout>>

\* with open(filepath, 'w') as f: opening for writing truncates the file
OpenWrite ==
    /\ pc = "open_w"
    /\ disk' = [disk EXCEPT ![idx] = <<>>]
    /\ pc' = "write"
    /\ log' = Append(log, <<"open_w", idx>>)
    /\ UNCHANGED <<before, linesep, run, idx, content, stdout>>

\* the file is not writable: it is not truncated
OpenWriteFails ==
    /\ pc = "open_w"
    /\ log' = Append(log, <<"fail", idx>>)
    /\ UNCHANGED disk
    /\ Raise

\* f.write(content) at the file position, and the with block flushes and closes f
Write ==
    /\ pc = "write"
    /\ disk' = [disk EXCEPT ![idx] = disk[idx] \o Encode(content, linesep)]
    /\ pc' = "print"
    /\ log' = log \o <<<<"write", idx>>, <<"close_w", idx>>>>
    /\ UNCHANGED <<before, linesep, run, idx, content, stdout>>

\* the write or the flush fails: nothing, or only a part, reached the disk
WriteFails ==
    /\ pc = "write"
    /\ \E n \in {0, Len(Encode(content, linesep)) \div 2} :
          disk' = [disk EXCEPT ![idx] = disk[idx] \o SubSeq(Encode(content, linesep), 1, n)]
    /\ log' = Append(log, <<"fail", idx>>)
    /\ Raise

\* print(f"(U+2713) Fixed {filepath}"), then the for loop takes the next path
PrintFixed ==
    /\ pc = "print"
    /\ stdout' = Append(stdout, ConfirmLine(files_to_fix[idx]))
    /\ IF idx < NumFiles
       THEN idx' = idx + 1 /\ pc' = "open_r"
       ELSE idx' = idx /\ pc' = "final"
    /\ UNCHANGED <<disk, before, linesep, run, content, log>>

\* print("\nDone! All files fixed."), after the loop
PrintDone ==
    /\ pc = "final"
    /\ stdout' = Append(stdout, DoneLine)
    /\ pc' = "done"
    /\ UNCHANGED <<disk, before, linesep, run, idx, content, log>>

\* the script is run a second time on the files the first run left
Rerun ==
    /\ pc = "done"
    /\ run = 1
    /\ run' = 2
    /\ idx' = 1
    /\ pc' = "open_r"
    /\ content' = <<>>
    /\ stdout' = <<>>
    /\ log' = <<>>
    /\ UNCHANGED <<disk, before, linesep>>

---------------------------------------------------------------------------
(* Inputs *)

\* contents of the three files for the runs in which file operations may fail
FileContents ==
    { <<>>,
      Chars("export const x = 1\n"),
      Chars("a\r\nb\r\n"),
      Chars("    a: b,\n    ...PaginationSchema.shape\n  })\n  .strict()\n"),
      Chars("  a: b,\r\n  ...PaginationSchema.shape\r\n})\r\n.strict()\r\n") }

\* the pieces the texts under test are put together from
Pieces ==
    << Chars("    a: b,\n    ...PaginationSchema.shape\n"),
       Chars("    response_format: ResponseFormatSchema,\n    ...PaginationSchema.shape\n"),
       Chars("  a: b,\n  ...PaginationSchema.shape\n"),
       Chars("    a: b\n    ...PaginationSchema.shape\n"),
       Chars("  })\n  .strict()"),
       Chars("})\n.strict()"),
       Chars("\n    ...PaginationSchema.shape"),
       Chars("    a: b,\n    ...PaginationSchema.shape\n  })\n  .strict()\n") >>

MaxPieces == 3

Texts ==
    { Flatten([k \in 1..Len(f) |-> Pieces[f[k]]]) :
        f \in UNION {[1..n -> 1..Len(Pieces)] : n \in 0..MaxPieces} }

Init ==
    /\ disk \in [1..NumFiles -> FileContents]
    /\ before = disk
    /\ linesep \in {LF, CRLF}
    /\ run = 1
    /\ idx = 1
    /\ pc = "open_r"
    /\ content = <<>>
    /\ stdout = <<>>
    /\ log = <<>>

Next ==
    \/ OpenRead \/ OpenReadFails
    \/ Read \/ ReadFails
    \/ ApplySub1 \/ ApplySub2 \/ ApplySub3
    \/ OpenWrite \/ OpenWriteFails
    \/ Write \/ WriteFails
    \/ PrintFixed
    \/ PrintDone

Spec == Init /\ [][Next]_vars

\* one file under test, no failing file operation, the script run twice
InitSub ==
    /\ \E t \in Texts : disk = [f \in 1..NumFiles |-> IF f = 1 THEN t ELSE <<>>]
    /\ before = disk
    /\ linesep = LF
    /\ run = 1
    /\ idx = 1
    /\ pc = "open_r"
    /\ content = <<>>
    /\ stdout = <<>>
    /\ log = <<>>

NextSub ==
    \/ OpenRead
    \/ Read
    \/ ApplySub1 \/ ApplySub2 \/ ApplySub3
    \/ OpenWrite
    \/ Write
    \/ PrintFixed
    \/ PrintDone
    \/ Rerun

SpecSub == InitSub /\ [][NextSub]_vars

---------------------------------------------------------------------------
(* Vocabulary of the properties *)

patterns == <<pattern1, pattern2, pattern3>>

SpreadToken == Chars("...PaginationSchema.shape")

\* the merge-based form that stands where a matched block stood, after the field
MergeTail(k) ==
    IF k = 3 THEN Chars("\n})\n.merge(PaginationSchema)\n.strict()")
    ELSE Chars("\n  })\n  .merge(PaginationSchema)\n  .strict()")

\* the lines of a block in the indentation of pattern1/pattern2 (v = 1) and of
\* pattern3 (v = 3)
SpreadLine(v) == (IF v = 3 THEN Chars("  ") ELSE Chars("    ")) \o SpreadToken
CloseLine(v)  == IF v = 3 THEN Chars("})") ELSE Chars("  })")
MergeLine(v)  == IF v = 3 THEN Chars(".merge(PaginationSchema)")
                 ELSE Chars("  .merge(PaginationSchema)")
StrictCall(v) == IF v = 3 THEN Chars(".strict()") ELSE Chars("  .strict()")
FieldOf(v)    == IF v = 3 THEN field3 ELSE field1

StartsWith(line, s) == OccursAt(s, line, 1)

\* the line ends in a field of the form fld
EndsWithField(line, fld) ==
    \E s \in 1..Len(line) : MatchAt(fld, line, s)[1] = Len(line) + 1

\* the text the script read from the file it is about to write back
Input == Decode(disk[idx])

\* in the first run, the three substitutions have been applied to the text read
\* and the file has not been reopened yet
Substituted == run = 1 /\ pc = "open_w"

\* the matches of the three patterns in text: <<pattern, start, end, group end>>
MatchesIn(text) ==
    UNION { { <<k, i, MatchAt(patterns[k], text, i)[1], MatchAt(patterns[k], text, i)[3]>>
              : i \in MatchStarts(patterns[k], text) } : k \in 1..3 }

NoPatternMatches(text) == MatchesIn(text) = {}

\* lines j .. j+2 of ls are a spread line, a closing line and a .strict() call
SpreadBlockAt(ls, j, v) ==
    /\ j + 2 <= Len(ls)
    /\ ls[j] = SpreadLine(v)
    /\ ls[j + 1] = CloseLine(v)
    /\ StartsWith(ls[j + 2], StrictCall(v))

\* lines j .. j+2 of ls are a closing line, the merge call and the .strict() call
MergedBlockAt(ls, j, v) ==
    /\ j + 2 <= Len(ls)
    /\ ls[j] = CloseLine(v)
    /\ ls[j + 1] = MergeLine(v)
    /\ StartsWith(ls[j + 2], StrictCall(v))

Failed == \E n \in 1..Len(log) : log[n][1] = "fail"

\* how far the run has come: the loop's position, then the statement in its body
StatementNo ==
    CASE pc = "open_r" -> 1 [] pc = "read"   -> 2 [] pc = "sub1"  -> 3
      [] pc = "sub2"   -> 4 [] pc = "sub3"   -> 5 [] pc = "open_w" -> 6
      [] pc = "write"  -> 7 [] pc = "print"  -> 8 [] pc = "final" -> 9
      [] pc = "done"   -> 10 [] pc = "crashed" -> 11

Position == 12 * idx + StatementNo

IsPrefix(s, t) == Len(s) <= Len(t) /\ SubSeq(t, 1, Len(s)) = s

FileOps(f) ==
    << <<"open_r", f>>, <<"read", f>>, <<"close_r", f>>,
       <<"open_w", f>>, <<"write", f>>, <<"close_w", f>> >>

---------------------------------------------------------------------------
(* Properties *)

\* C1: where one of the three patterns matches the text read, the output is what
\* the substitutions make of the text up to the field, then the merge-based form
\* (closing line, .merge(PaginationSchema), .strict()) in place of the spread line
\* and the two lines after it, then what the substitutions make of the rest; and
\* the output holds fewer spread tokens than the input.
C1_TargetedBlockIsReplaced ==
    Substituted =>
        LET text == Input IN
        \A m \in MatchesIn(text) :
            LET comma == IF m[1] = 2 THEN m[4] ELSE m[4] - 1
                pre   == Transform(SubSeq(text, 1, comma - 1))
                post  == Transform(SubSeq(text, m[3], Len(text)))
            IN  /\ \/ content = pre \o <<",">> \o MergeTail(m[1]) \o post
                   \/ content = pre \o MergeTail(m[1]) \o post
                /\ Count(content, SpreadToken) < Count(text, SpreadToken)

C1_Witness ==
    /\ Substituted
    /\ Matches(pattern1, Input)
    /\ Matches(pattern3, Input)
    /\ Contains(content, MergeTail(1))
    /\ Contains(content, MergeTail(3))
    /\ ~Contains(content, SpreadToken)

\* C2: run a second time on the output of the first run, the three substitutions
\* leave the text as it was read.
C2_Idempotent ==
    (run = 2 /\ pc = "open_w") => content = Input

C2_Witness ==
    /\ run = 2
    /\ pc = "open_w"
    /\ idx = 1
    /\ disk[1] # before[1]
    /\ Contains(Input, MergeTail(1))
    /\ Contains(Input, SpreadToken)

\* C3: a text none of the three patterns matches comes out of the three
\* substitutions character for character as it went in.
C3_NoMatchNoChange ==
    Substituted =>
        LET text == Input IN NoPatternMatches(text) => content = text

C3_Witness ==
    /\ Substituted
    /\ NoPatternMatches(Input)
    /\ Contains(Input, SpreadToken)
    /\ content = Input

C5_UntouchedFileUnchanged ==
    pc = "done" =>
        \A f \in 1..NumFiles :
            NoPatternMatches(Decode(before[f])) =>
                /\ disk[f] = before[f]
                /\ \E n \in 1..Len(stdout) : stdout[n] = ConfirmLine(files_to_fix[f])

\* C6: once a file operation on the k-th file has failed the script has stopped:
\* nothing more can happen, the files before k are rewritten and confirmed, no
\* confirmation line for k or a later file and no completion line is printed,
\* the files after k are neither read nor written, and nothing is tried again.
C6_FailureStopsTheRun ==
    Failed =>
        /\ pc = "crashed"
        /\ ~ENABLED Next
        /\ log[Len(log)] = <<"fail", idx>>
        /\ \A n \in 1..(Len(log) - 1) : log[n][1] # "fail" /\ log[n][2] <= idx
        /\ \A n, o \in 1..Len(log) : log[n] = log[o] => n = o
        /\ stdout = [f \in 1..(idx - 1) |-> ConfirmLine(files_to_fix[f])]
        /\ \A f \in 1..NumFiles :
              /\ f < idx => disk[f] = Encode(Transform(Decode(before[f])), linesep)
              /\ f > idx => disk[f] = before[f]

C6_Witness ==
    /\ Failed
    /\ pc = "crashed"
    /\ idx = 2
    /\ disk[1] # before[1]
    /\ Len(stdout) = 1

\* C7: when a run has come to its end without a failing file operation, standard
\* output holds the confirmation lines of discovery.ts, reading.ts and common.ts
\* in that order and then the completion line, nothing else; lines are only ever
\* added, one at a time, and a confirmation line only when its file has been
\* written and closed; every step moves the run forward, and no step follows the
\* completion line.
C7_OutputOfACompleteRun ==
    /\ [](pc = "done" =>
            stdout = << "(U+2713) Fixed src/tools/discovery.ts",
                        "(U+2713) Fixed src/tools/reading.ts",
                        "(U+2713) Fixed src/schemas/common.ts",
                        "\nDone! All files fixed." >>)
    /\ [][stdout' # stdout =>
            /\ Len(stdout') = Len(stdout) + 1
            /\ SubSeq(stdout', 1, Len(stdout)) = stdout
            /\ \A f \in 1..NumFiles :
                  Len(stdout') = f =>
                      \E n \in 1..Len(log) : log[n] = <<"close_w", f>>]_vars
    /\ [][Position' > Position]_vars
    /\ [][pc # "done"]_vars

C7_Witness ==
    /\ pc = "done"
    /\ disk[3] # before[3]
    /\ ~Failed
    /\ Len(stdout) = NumFiles + 1

\* C8: the file operations of a run are, in this order and once each, open, read,
\* close, open for writing, write, close of the first file, then of the second,
\* then of the third (up to the point the run has reached or failed at), and
\* what a file holds once it is written and closed is the three substitutions
\* applied to what that file held before the run.
C8_OneReadOneWritePerFile ==
    LET ops == SelectSeq(log, LAMBDA e : e[1] # "fail") IN
    /\ IsPrefix(ops, FileOps(1) \o FileOps(2) \o FileOps(3))
    /\ pc = "done" => Len(ops) = 6 * NumFiles
    /\ \A f \in 1..NumFiles :
          (\E n \in 1..Len(log) : log[n] = <<"close_w", f>>)
              => disk[f] = Encode(Transform(Decode(before[f])), linesep)

C8_Witness ==
    /\ pc = "done"
    /\ Len(log) = 6 * NumFiles
    /\ disk[1] # before[1]
    /\ disk[2] # disk[1]

\* C9 as claimed: a block whose field line is
\* "    response_format: ResponseFormatSchema," comes out with that line without
\* its comma, directly followed by the closing line, the merge call and .strict().
C9_ResponseFormatLosesComma ==
    (Substituted /\ Matches(pattern2, Input)) =>
        Contains(content,
                 Chars("    response_format: ResponseFormatSchema") \o MergeTail(2))

\* C10 as claimed: a spread token that lies in no match of the three patterns is
\* in the output as it was in the input, with its line, the line before and the
\* line after; the field line of every block pattern1 or pattern3 matches is
\* kept as it was, comma included; and the output has as many lines as the input.
C10_UnmatchedSpreadAndNeighbours ==
    Substituted =>
        LET text == Input
            il   == Lines(text)
            ol   == Lines(content)
            ms   == MatchesIn(text)
            covered(p) == \E m \in ms : m[2] <= p /\ p < m[3]
        IN  /\ Len(ol) = Len(il)
            /\ \A p \in 1..Len(text) :
                  (OccursAt(SpreadToken, text, p) /\ ~covered(p))
                  => \A w \in {LineOf(text, p) - 1, LineOf(text, p), LineOf(text, p) + 1} :
                        (1 <= w /\ w <= Len(il)) => ol[w] = il[w]
            /\ \A m \in ms :
                  m[1] \in {1, 3} =>
                      /\ ol[LineOf(text, m[2])] = il[LineOf(text, m[2])]
                      /\ text[m[4] - 1] = ","

\* C10 as amended: the only lines that differ between input and output are the
\* spread line and the closing line of the blocks a pattern matches.  So a spread
\* token that lies in no match keeps its line, and the lines before and after it
\* are kept unless they are the spread or closing line of a matched block; the
\* field line of every block pattern1 or pattern3 matches is kept as it was,
\* comma included; and the output has as many lines as the input.
C10_OnlyMatchedBlocksChange ==
    Substituted =>
        LET text == Input
            il   == Lines(text)
            ol   == Lines(content)
            ms   == MatchesIn(text)
            covered(p) == \E m \in ms : m[2] <= p /\ p < m[3]
            rewritten  == UNION {{LineOf(text, m[2]) + 1, LineOf(text, m[2]) + 2} : m \in ms}
        IN  /\ Len(ol) = Len(il)
            /\ \A u \in 1..Len(il) : u \notin rewritten => ol[u] = il[u]
            /\ \A p \in 1..Len(text) :
                  (OccursAt(SpreadToken, text, p) /\ ~covered(p))
                  => LineOf(text, p) \notin rewritten
            /\ \A m \in ms :
                  m[1] \in {1, 3} =>
                      /\ ol[LineOf(text, m[2])] = il[LineOf(text, m[2])]
                      /\ text[m[4] - 1] = ","

\* a spread token in no match, the line after it the spread line of a block that
\* is rewritten
C10_Witness ==
    /\ Substituted
    /\ \E p \in 1..Len(Input) :
          /\ OccursAt(SpreadToken, Input, p)
          /\ \A m \in MatchesIn(Input) : ~(m[2] <= p /\ p < m[3])
          /\ \E m \in MatchesIn(Input) : m[1] = 1 /\ LineOf(Input, m[2]) = LineOf(Input, p)
          /\ Lines(content)[LineOf(Input, p)] = Lines(Input)[LineOf(Input, p)]
          /\ Lines(content)[LineOf(Input, p) + 1] = CloseLine(1)

=============================================================================
